---- MODULE Spec2Model ----
(***************************************************************************)
(* abacus-rs: a plain-text ledger.  A Ledger is built once from a TOML     *)
(* document (Ledger::new) and then serves one of the report operations     *)
(* print_accounts, print_balances and print_journal.                       *)
(*                                                                         *)
(* Conventions of the model                                                *)
(*   Option<T>     None is <<>>, Some(x) is <<x>>.                         *)
(*   NaiveDate     the integer yyyymmdd (its order is the calendar order). *)
(*   f32           an integer; the model's amounts, quantities and rates   *)
(*                 are small whole numbers, on which f32 arithmetic is     *)
(*                 exact.                                                  *)
(*   toml::Value   [kind, s, n]: kind is String, Integer, Float, Datetime  *)
(*                 (a local date) or Absent (the key is not in the table); *)
(*                 s is the text of a String, n the number or the date.    *)
(*   panic!        pc = "panicked" and err names the message.              *)
(***************************************************************************)
EXTENDS Integers, Sequences, FiniteSets, TLC

VARIABLES
    doc,                    \* the parsed TOML document handed to Ledger::new
    accounts,               \* Ledger.accounts: Vec<Account>
    transactions,           \* Ledger.transactions: Vec<Transaction>
    prices,                 \* Ledger.prices: Vec<Price>
    pc,                     \* "start", "loaded", "done" (the report returned),
                            \* "panicked" or "failed" (main returned an Err)
    err,                    \* the panic: [kind, at], at = index of the record it stopped at
    call,                   \* the last operation called, with its arguments (for the
                            \* import: the rows of the CSV file and the date format)
    out,                    \* the lines printed by the last operation
    filtered_transactions,  \* local of print_journal / print_balances
    filtered_accounts,      \* local of print_journal / print_balances
    transactions_by_period, \* local of _group_transactions_by_period
    aggregated,             \* per period, the value _get_balances returned
    balances_by_period      \* the value _group_transactions_by_period returned

vars == <<doc, accounts, transactions, prices, pc, err, call, out,
          filtered_transactions, filtered_accounts, transactions_by_period,
          aggregated, balances_by_period>>

(***************************************************************************)
(* Option and sequence helpers                                             *)
(***************************************************************************)
None == <<>>
Some(x) == <<x>>
IsSome(o) == o # <<>>
UnwrapOr(o, d) == IF o # <<>> THEN o[1] ELSE d

Range(s) == {s[i] : i \in DOMAIN s}

RECURSIVE SeqsUpTo(_, _)
SeqsUpTo(S, n) ==
    IF n = 0 THEN {<<>>}
    ELSE LET shorter == SeqsUpTo(S, n - 1)
         IN  shorter \cup {Append(s, x) : s \in {q \in shorter : Len(q) = n - 1}, x \in S}

RECURSIVE SelectSeqBy(_, _)
\* Iterator::filter(..).collect() over a Vec, with the predicate given as the
\* sequence of its truth values
SelectSeqBy(s, keep) ==
    IF s = <<>> THEN <<>>
    ELSE (IF Head(keep) THEN <<Head(s)>> ELSE <<>>) \o SelectSeqBy(Tail(s), Tail(keep))

RECURSIVE SumSeq(_)
SumSeq(s) == IF s = <<>> THEN 0 ELSE Head(s) + SumSeq(Tail(s))

(***************************************************************************)
(* Dates                                                                   *)
(***************************************************************************)
\* NaiveDate::default()
NaiveDateDefault == 19700101

\* The date strings the model uses, with the date each one denotes.
DateTable ==
    [s \in {"1965-03-15", "2023-02-20", "2023-05-15", "2023-10-10", "2024-01-05"} |->
        CASE s = "1965-03-15" -> 19650315
          [] s = "2023-02-20" -> 20230220
          [] s = "2023-05-15" -> 20230515
          [] s = "2023-10-10" -> 20231010
          [] s = "2024-01-05" -> 20240105]

\* NaiveDate::from_str(s).ok(): a string that is no %Y-%m-%d date gives None
NaiveDate_from_str(s) ==
    IF s = "1970-01-01" THEN Some(19700101)
    ELSE IF s = "2999-01-01" THEN Some(29990101)
    ELSE IF s \in DOMAIN DateTable THEN Some(DateTable[s])
    ELSE None

year(d) == d \div 10000
month(d) == (d \div 100) % 100

(***************************************************************************)
(* toml::Value                                                             *)
(***************************************************************************)
Absent == [kind |-> "Absent", s |-> "", n |-> 0]
VString(s) == [kind |-> "String", s |-> s, n |-> 0]
VInteger(n) == [kind |-> "Integer", s |-> "", n |-> n]
VFloat(n) == [kind |-> "Float", s |-> "", n |-> n]
VDatetime(d) == [kind |-> "Datetime", s |-> "", n |-> d]

\* Value::get(key) on a table
get(value, key) == IF value[key].kind = "Absent" THEN None ELSE Some(value[key])
\* Value::as_str, Value::as_float, Value::as_datetime
as_str(v) == IF v.kind = "String" THEN Some(v.s) ELSE None
as_float(v) == IF v.kind = "Float" THEN Some(v.n) ELSE None
as_datetime(v) == IF v.kind = "Datetime" THEN Some(v.n) ELSE None

\* String::replace('"', ""): the model's only strings holding quotes
replace_quotes(s) ==
    IF s = "\"A\"" THEN "A" ELSE IF s = "\"USD\"" THEN "USD" ELSE s

(***************************************************************************)
(* accounts.rs                                                             *)
(***************************************************************************)
AccountTypeNames ==
    {"Assets", "Income", "Liabilities", "Expenses", "Equity", "Stocks",
     "MutualFunds", "Holdings", "Cash"}

\* a from_str that falls back to Assets, as the callers' unwrap_or would
AccountType_from_str_or_assets(input) ==
    IF input \in AccountTypeNames THEN input ELSE "Assets"

\* AccountType::from_str: never an Err
AccountType_from_str(input) ==
    IF input \in AccountTypeNames THEN input ELSE "Unknown"

\* Account::new
Account_new(name, open, currency, account_type, opening_balance) ==
    [name |-> replace_quotes(name), open |-> open,
     currency |-> replace_quotes(currency), account_type |-> account_type,
     opening_balance |-> opening_balance]

\* Transaction::new
Transaction_new(date, account, payee, quantity, amount, offset_account, offset_amount, note) ==
    [date |-> date, account |-> replace_quotes(account), payee |-> payee,
     quantity |-> quantity, amount |-> amount,
     offset_account |-> replace_quotes(offset_account),
     offset_amount |-> offset_amount, note |-> note]

\* Price::new
Price_new(date, commodity, price, currency) ==
    [date |-> date, commodity |-> replace_quotes(commodity), price |-> price,
     currency |-> replace_quotes(currency)]

(***************************************************************************)
(* utils.rs: field parsers.  A parser that can panic returns               *)
(* [panic, val]: panic is "" when it returned val.                         *)
(***************************************************************************)
NoPanic == ""

\* parse_value::<String>
parse_value(value, key) ==
    IF IsSome(get(value, key)) THEN as_str(get(value, key)[1]) ELSE None

\* parse_value::<NaiveDate>: the string is parsed, anything else is None
parse_value_date(value, key) ==
    IF IsSome(parse_value(value, key))
    THEN NaiveDate_from_str(parse_value(value, key)[1])
    ELSE None

\* parse_value::<AccountType>
parse_value_type(value, key) ==
    IF IsSome(parse_value(value, key))
    THEN Some(AccountType_from_str(parse_value(value, key)[1]))
    ELSE None

\* parse_value_to_f32: an absent key reads as Float(0.0)
parse_value_to_f32(value, key) ==
    LET toml_value == UnwrapOr(get(value, key), VFloat(0))
    IN  IF toml_value.kind \in {"Integer", "Float"}
        THEN [panic |-> NoPanic, val |-> Some(toml_value.n)]
        ELSE [panic |-> "Amount is not an integer or float", val |-> None]

\* parse_value_to_naivedate: expect() on the key, expect() on as_datetime
parse_value_to_naivedate(val, col) ==
    IF ~IsSome(get(val, col))
    THEN [panic |-> "{} is a required field", val |-> None]
    ELSE IF ~IsSome(as_datetime(get(val, col)[1]))
    THEN [panic |-> "Invalid date format", val |-> None]
    ELSE [panic |-> NoPanic, val |-> Some(as_datetime(get(val, col)[1])[1])]

\* quarters counted from 0
quarter_from_zero(m) == (m - 1) \div 3

\* quarter
quarter(m) ==
    IF m \in {1, 2, 3} THEN 1
    ELSE IF m \in {4, 5, 6} THEN 2
    ELSE IF m \in {7, 8, 9} THEN 3
    ELSE 4

(***************************************************************************)
(* ledger.rs: the record loader                                            *)
(***************************************************************************)
\* the body of the loop of Ledger::_get_accounts, for one record
get_account(account) ==
    LET name == parse_value(account, "name")
        open == parse_value_date(account, "open")
        currency == parse_value(account, "currency")
        account_type == parse_value_type(account, "type")
        \* f.to_string().parse::<f32>().ok(): the text of a number parses,
        \* the quoted text of a string and the text of a date do not
        opening_balance ==
            IF IsSome(get(account, "opening_balance"))
               /\ get(account, "opening_balance")[1].kind \in {"Integer", "Float"}
            THEN Some(get(account, "opening_balance")[1].n)
            ELSE None
    IN  Account_new(UnwrapOr(name, ""), UnwrapOr(open, NaiveDateDefault),
                    UnwrapOr(currency, ""), UnwrapOr(account_type, "Assets"),
                    opening_balance)

\* Ledger::_get_accounts
get_accounts(account_list) ==
    IF IsSome(account_list)
    THEN [i \in DOMAIN account_list[1] |-> get_account(account_list[1][i])]
    ELSE <<>>

\* quantity of a transaction record: as_float() of a present value, 1.0 otherwise
get_quantity(transaction) ==
    LET quantity ==
            IF IsSome(get(transaction, "quantity"))
            THEN as_float(get(transaction, "quantity")[1])
            ELSE Some(1)
    IN  UnwrapOr(quantity, 1)

\* offset_amount of a transaction record
get_offset_amount(transaction, amount) ==
    IF IsSome(get(transaction, "offset_amount"))
    THEN UnwrapOr(as_float(get(transaction, "offset_amount")[1]), 0)
    ELSE UnwrapOr(amount, 0) * (-1)

\* the body of the loop of Ledger::_get_transactions, for one record
get_transaction(transaction) ==
    LET account == parse_value(transaction, "account")
        date == parse_value_to_naivedate(transaction, "date")
        payee == parse_value(transaction, "payee")
        amount == parse_value_to_f32(transaction, "amount")
        offset_account == parse_value(transaction, "offset_account")
        note == parse_value(transaction, "note")
        panic == IF date.panic # NoPanic THEN date.panic ELSE amount.panic
    IN  [panic |-> panic,
         val |-> Transaction_new(UnwrapOr(date.val, NaiveDateDefault),
                                 UnwrapOr(account, ""), payee,
                                 get_quantity(transaction),
                                 UnwrapOr(amount.val, 0),
                                 UnwrapOr(offset_account, ""),
                                 get_offset_amount(transaction, amount.val), note)]

\* the body of the loop of Ledger::_get_prices, for one record
get_price(price) ==
    LET date == parse_value_to_naivedate(price, "date")
        commodity == parse_value(price, "commodity")
        amount == parse_value_to_f32(price, "price")
        currency == parse_value(price, "currency")
        panic == IF date.panic # NoPanic THEN date.panic ELSE amount.panic
    IN  [panic |-> panic,
         val |-> Price_new(UnwrapOr(date.val, NaiveDateDefault),
                           UnwrapOr(commodity, ""), UnwrapOr(amount.val, 0),
                           UnwrapOr(currency, ""))]

\* a loading loop over the parsed records: it stops at the first panic
RECURSIVE load_loop(_, _, _)
load_loop(parsed, i, acc) ==
    IF i > Len(parsed) THEN [panic |-> NoPanic, at |-> 0, val |-> acc]
    ELSE IF parsed[i].panic # NoPanic
    THEN [panic |-> parsed[i].panic, at |-> i, val |-> <<>>]
    ELSE load_loop(parsed, i + 1, Append(acc, parsed[i].val))

\* Ledger::_get_transactions
get_transactions(transactions_list) ==
    IF IsSome(transactions_list)
    THEN load_loop([i \in DOMAIN transactions_list[1] |->
                        get_transaction(transactions_list[1][i])], 1, <<>>)
    ELSE [panic |-> NoPanic, at |-> 0, val |-> <<>>]

\* Ledger::_get_prices
get_prices(price_list) ==
    IF IsSome(price_list)
    THEN load_loop([i \in DOMAIN price_list[1] |-> get_price(price_list[1][i])], 1, <<>>)
    ELSE [panic |-> NoPanic, at |-> 0, val |-> <<>>]

NoErr == [kind |-> NoPanic, at |-> 0]
NoCall ==
    [op |-> "none", from |-> None, to |-> None, account_type |-> None,
     classes |-> None, name |-> None, payee |-> None, price |-> None,
     group |-> None, csv |-> <<>>, format |-> None]

\* Ledger::new: the three loaders in the order of the struct literal
New ==
    /\ pc = "start"
    /\ LET accs == get_accounts(doc.account)
           txs == get_transactions(doc.transaction)
           prs == get_prices(doc.price)
       IN  IF txs.panic # NoPanic
           THEN /\ pc' = "panicked"
                /\ err' = [kind |-> txs.panic, at |-> txs.at]
                /\ UNCHANGED <<accounts, transactions, prices>>
           ELSE IF prs.panic # NoPanic
           THEN /\ pc' = "panicked"
                /\ err' = [kind |-> prs.panic, at |-> prs.at]
                /\ UNCHANGED <<accounts, transactions, prices>>
           ELSE /\ pc' = "loaded"
                /\ err' = NoErr
                /\ accounts' = accs
                /\ transactions' = txs.val
                /\ prices' = prs.val
    /\ UNCHANGED <<doc, call, out, filtered_transactions, filtered_accounts,
                   transactions_by_period, aggregated, balances_by_period>>

\* the state before Ledger::new, for a document d
InitWith(d) ==
    /\ doc = d
    /\ accounts = <<>>
    /\ transactions = <<>>
    /\ prices = <<>>
    /\ pc = "start"
    /\ err = NoErr
    /\ call = NoCall
    /\ out = <<>>
    /\ filtered_transactions = <<>>
    /\ filtered_accounts = <<>>
    /\ transactions_by_period = <<>>
    /\ aggregated = <<>>
    /\ balances_by_period = <<>>

(***************************************************************************)
(* ledger.rs: validation                                                   *)
(***************************************************************************)
\* the last declared account of that name
find_last_account(accs, name) ==
    LET hits == {i \in DOMAIN accs : accs[i].name = name}
    IN  IF hits = {} THEN None
        ELSE Some(accs[CHOOSE i \in hits : \A j \in hits : j <= i])

\* accounts.iter().find(|a| a.name == name): the first declared account of that name
find_account(accs, name) ==
    LET hits == {i \in DOMAIN accs : accs[i].name = name}
    IN  IF hits = {} THEN None
        ELSE Some(accs[CHOOSE i \in hits : \A j \in hits : i <= j])

\* validate_transaction with the quantity multiplied into the balance check
validate_transaction_with_quantity(accs, t) ==
    LET account_exists == \E i \in DOMAIN accs : accs[i].name = t.account
        sum_postings == t.amount * t.quantity + t.offset_amount
        account_currency == find_account(accs, t.account)
        offset_currency == find_account(accs, t.offset_account)
    IN  IF ~account_exists THEN "Account {} does not exist"
        ELSE IF sum_postings # 0
                /\ IsSome(account_currency) /\ IsSome(offset_currency)
                /\ account_currency[1].currency = offset_currency[1].currency
        THEN "Transaction does not balance"
        ELSE NoPanic

\* the body of the loop of validate_transactions, for one transaction:
\* the message it panics with, or NoPanic
validate_transaction(accs, t) ==
    LET account_exists == \E i \in DOMAIN accs : accs[i].name = t.account
        sum_postings == t.amount + t.offset_amount
        account_currency == find_account(accs, t.account)
        offset_currency == find_account(accs, t.offset_account)
    IN  IF ~account_exists THEN "Account {} does not exist"
        ELSE IF sum_postings # 0
                /\ IsSome(account_currency) /\ IsSome(offset_currency)
                /\ account_currency[1].currency = offset_currency[1].currency
        THEN "Transaction does not balance"
        ELSE NoPanic

\* Ledger::validate_transactions: [kind, at] of the first panic, NoErr if none
RECURSIVE validate_loop(_, _, _)
validate_loop(accs, txs, i) ==
    IF i > Len(txs) THEN NoErr
    ELSE IF validate_transaction(accs, txs[i]) # NoPanic
    THEN [kind |-> validate_transaction(accs, txs[i]), at |-> i]
    ELSE validate_loop(accs, txs, i + 1)

\* validate_transactions leaving its loop after the first transaction
validate_first_transaction(accs, txs) ==
    IF txs = <<>> THEN NoErr ELSE validate_loop(accs, <<txs[1]>>, 1)

validate_transactions(accs, txs) == validate_loop(accs, txs, 1)

(***************************************************************************)
(* ledger.rs: sorting and the query layer                                  *)
(***************************************************************************)
\* the elements in the opposite order
reversed(s) == [i \in DOMAIN s |-> s[Len(s) + 1 - i]]

\* slice::sort_by(|a, b| a.date.cmp(&b.date)): stable, ascending dates
RECURSIVE sort_by_date(_)
sort_by_date(s) ==
    IF s = <<>> THEN <<>>
    ELSE LET front == sort_by_date(SubSeq(s, 1, Len(s) - 1))
             x == s[Len(s)]
             NotAfter(y) == y.date <= x.date
             After(y) == y.date > x.date
         IN  SelectSeq(front, NotAfter) \o <<x>> \o SelectSeq(front, After)

\* slice::sort_by(|a, b| b.date.cmp(&a.date)): stable, descending dates
RECURSIVE sort_by_date_desc(_)
sort_by_date_desc(s) ==
    IF s = <<>> THEN <<>>
    ELSE LET front == sort_by_date_desc(SubSeq(s, 1, Len(s) - 1))
             x == s[Len(s)]
             NotBefore(y) == y.date >= x.date
             Before(y) == y.date < x.date
         IN  SelectSeq(front, NotBefore) \o <<x>> \o SelectSeq(front, Before)

\* Ledger::_query_by_account_name
query_by_account_name(accs, account_name) ==
    LET Keep(a) == a.name = account_name
    IN  SelectSeq(accs, Keep)

\* Ledger::_query_by_account_type
query_by_account_type(accs, account_type) ==
    LET Keep(a) == a.account_type = AccountType_from_str(account_type)
    IN  SelectSeq(accs, Keep)

\* Ledger::_query_by_transaction_payee
query_by_transaction_payee(txs, payee) ==
    LET Keep(t) == t.payee = Some(payee)
    IN  SelectSeq(txs, Keep)

\* Ledger::_query_by_transaction_date
query_by_transaction_date(txs, from, to) ==
    LET from_date == UnwrapOr(NaiveDate_from_str(UnwrapOr(from, "1970-01-01")),
                              NaiveDateDefault)
        to_date == UnwrapOr(NaiveDate_from_str(UnwrapOr(to, "2999-01-01")),
                            NaiveDateDefault)
        Keep(t) == t.date >= from_date /\ t.date <= to_date
    IN  SelectSeq(txs, Keep)

\* the match (from, to) of print_journal and print_balances
date_filtered(txs, from, to) ==
    IF IsSome(from) \/ IsSome(to)
    THEN query_by_transaction_date(txs, from, to)
    ELSE txs

\* print_journal: the payee filter, applied last to the transactions
journal_transactions(txs, from, to, payee) ==
    IF IsSome(payee)
    THEN query_by_transaction_payee(txs, payee[1])
    ELSE date_filtered(txs, from, to)

\* print_journal: the account filters, by type and then by name
journal_accounts(accs, account_type, name) ==
    IF IsSome(name)
    THEN query_by_account_name(accs, name[1])
    ELSE IF IsSome(account_type)
    THEN query_by_account_type(accs, account_type[1])
    ELSE accs

(***************************************************************************)
(* ledger.rs: print_journal and print_accounts                             *)
(***************************************************************************)
\* the two lines print_journal prints for one transaction
posting_lines(t) ==
    << [leg |-> "posting", date |-> t.date, account |-> t.account,
        amount |-> t.amount, payee |-> UnwrapOr(t.payee, "")],
       [leg |-> "offset", date |-> t.date, account |-> t.offset_account,
        amount |-> t.offset_amount, payee |-> ""] >>

\* the loop of print_journal over the filtered transactions
RECURSIVE journal_lines(_, _)
journal_lines(txs, accs) ==
    IF txs = <<>> THEN <<>>
    ELSE LET t == Head(txs)
             found ==
                 \E i \in DOMAIN accs :
                     (accs[i].name = t.account) \/ (accs[i].name = t.offset_account)
         IN  (IF found THEN posting_lines(t) ELSE <<>>)
             \o journal_lines(Tail(txs), accs)

Panics(e) ==
    /\ pc' = "panicked"
    /\ err' = e
    /\ out' = <<>>
    /\ filtered_transactions' = <<>>
    /\ filtered_accounts' = <<>>
    /\ transactions_by_period' = <<>>
    /\ aggregated' = <<>>
    /\ balances_by_period' = <<>>

UnwrapNone == [kind |-> "called Option::unwrap() on a None value", at |-> 0]

\* Ledger::print_journal
print_journal(from, to, account_type, name, payee) ==
    /\ pc = "loaded"
    /\ call' = [NoCall EXCEPT !.op = "print_journal", !.from = from, !.to = to,
                              !.account_type = account_type, !.name = name,
                              !.payee = payee]
    /\ transactions' = sort_by_date(transactions)
    /\ LET sorted == sort_by_date(transactions)
           valid == validate_transactions(accounts, sorted)
           ftxs == journal_transactions(sorted, from, to, payee)
           faccs == journal_accounts(accounts, account_type, name)
       IN  IF valid # NoErr THEN Panics(valid)
           ELSE IF accounts = <<>> THEN Panics(UnwrapNone)
           ELSE /\ pc' = "done"
                /\ err' = NoErr
                /\ filtered_transactions' = ftxs
                /\ filtered_accounts' = faccs
                /\ out' = journal_lines(ftxs, faccs)
                /\ transactions_by_period' = <<>>
                /\ aggregated' = <<>>
                /\ balances_by_period' = <<>>
    /\ UNCHANGED <<doc, accounts, prices>>

\* Ledger::print_accounts
print_accounts ==
    /\ pc = "loaded"
    /\ call' = [NoCall EXCEPT !.op = "print_accounts"]
    /\ IF accounts = <<>> THEN Panics(UnwrapNone)
       ELSE /\ pc' = "done"
            /\ err' = NoErr
            /\ out' = [i \in DOMAIN accounts |->
                          [open |-> accounts[i].open,
                           account_type |-> accounts[i].account_type,
                           name |-> replace_quotes(accounts[i].name),
                           currency |-> replace_quotes(accounts[i].currency)]]
            /\ filtered_transactions' = <<>>
            /\ filtered_accounts' = <<>>
            /\ transactions_by_period' = <<>>
            /\ aggregated' = <<>>
            /\ balances_by_period' = <<>>
    /\ UNCHANGED <<doc, accounts, transactions, prices>>

(***************************************************************************)
(* ledger.rs: the balance aggregator and the period grouper.               *)
(* A HashMap is a function from its keys.                                  *)
(***************************************************************************)
EmptyMap == [k \in {} |-> 0]

\* *map.entry(key).or_insert(0.0) += delta
entry_add(map, key, delta) ==
    IF key \in DOMAIN map
    THEN [map EXCEPT ![key] = @ + delta]
    ELSE [k \in DOMAIN map \cup {key} |-> IF k = key THEN 0 + delta ELSE map[k]]

\* an entry of 0 for every declared account, whatever its opening balance
add_zero_balances(accs, balances) ==
    [k \in DOMAIN balances \cup {accs[i].name : i \in DOMAIN accs} |->
        IF k \in DOMAIN balances THEN balances[k] ELSE 0]

\* _get_balances, first loop: the opening balances
RECURSIVE add_opening_balances(_, _)
add_opening_balances(accs, balances) ==
    IF accs = <<>> THEN balances
    ELSE add_opening_balances(
             Tail(accs),
             entry_add(balances, Head(accs).name,
                       UnwrapOr(Head(accs).opening_balance, 0)))

\* posting_amount without the quantity
posting_amount_without_quantity(t) == t.amount

\* what one transaction adds to its account
posting_amount(t) == t.amount * t.quantity
\* what one transaction adds to its offset account
offset_posting_amount(t) == t.offset_amount

\* _get_balances, second loop: the two legs of every transaction
RECURSIVE add_transactions(_, _)
add_transactions(txs, balances) ==
    IF txs = <<>> THEN balances
    ELSE add_transactions(
             Tail(txs),
             entry_add(entry_add(balances, Head(txs).account, posting_amount(Head(txs))),
                       Head(txs).offset_account, offset_posting_amount(Head(txs))))

\* relevant_prices.entry(commodity).or_insert(last_price), over the selected prices
RECURSIVE insert_prices(_, _)
insert_prices(selected, relevant) ==
    IF selected = <<>> THEN relevant
    ELSE insert_prices(
             Tail(selected),
             IF Head(selected).commodity \in DOMAIN relevant THEN relevant
             ELSE [k \in DOMAIN relevant \cup {Head(selected).commodity} |->
                      IF k = Head(selected).commodity THEN Head(selected).price
                      ELSE relevant[k]])

\* _get_balances: the prices quoted in p, latest first, one rate per commodity
relevant_prices(prs, p) ==
    LET Quoted(c) == c.currency = p
        selected_currency == sort_by_date_desc(SelectSeq(prs, Quoted))
    IN  insert_prices(selected_currency, EmptyMap)

\* _get_balances, last loop: every declared account whose currency is priced
\* multiplies the entry of its name
RECURSIVE apply_prices(_, _, _)
apply_prices(accs, relevant, balances) ==
    IF accs = <<>> THEN balances
    ELSE apply_prices(
             Tail(accs), relevant,
             IF Head(accs).currency \in DOMAIN relevant
             THEN [balances EXCEPT ![Head(accs).name] = @ * relevant[Head(accs).currency]]
             ELSE balances)

\* the balances before re-pricing
unpriced_balances(accs, txs) ==
    add_transactions(txs, add_opening_balances(accs, EmptyMap))

\* Ledger::_get_balances
get_balances(accs, txs, prs, price) ==
    IF IsSome(price)
    THEN apply_prices(accs, relevant_prices(prs, price[1]), unpriced_balances(accs, txs))
    ELSE unpriced_balances(accs, txs)

\* the period key of one transaction
period_of(t, group) ==
    IF group = Some("M") THEN <<year(t.date), month(t.date)>>
    ELSE IF group = Some("Q") THEN <<year(t.date), quarter(month(t.date))>>
    ELSE IF group = Some("Y") THEN <<year(t.date), year(t.date)>>
    ELSE <<0, 0>>

\* a grouping that opens the bucket (0, 0) when there is no transaction
group_transactions_or_all(txs, group) ==
    IF txs = <<>> THEN [p \in {<<0, 0>>} |-> <<>>]
    ELSE [p \in {period_of(txs[i], group) : i \in DOMAIN txs} |->
             LET InPeriod(t) == period_of(t, group) = p
             IN  SelectSeq(txs, InPeriod)]

\* _group_transactions_by_period, first loop: the transactions of each period
group_transactions(txs, group) ==
    [p \in {period_of(txs[i], group) : i \in DOMAIN txs} |->
        LET InPeriod(t) == period_of(t, group) = p
        IN  SelectSeq(txs, InPeriod)]

\* a retain that keeps every entry
retain_all(bal) == bal

\* bal.retain(|_, &mut value| value != 0.0)
retain_nonzero(bal) ==
    [k \in {n \in DOMAIN bal : bal[n] # 0} |-> bal[k]]

\* _group_transactions_by_period, second loop, before retain
period_balances(accs, prs, by_period, price) ==
    [p \in DOMAIN by_period |-> get_balances(accs, by_period[p], prs, price)]

\* Ledger::_group_transactions_by_period
group_transactions_by_period(accs, prs, txs, price, group) ==
    LET bals == period_balances(accs, prs, group_transactions(txs, group), price)
    IN  [p \in DOMAIN bals |-> retain_nonzero(bals[p])]

(***************************************************************************)
(* ledger.rs: print_balances                                               *)
(***************************************************************************)
\* the order of (u32, u32)
period_lt(a, b) == a[1] < b[1] \/ (a[1] = b[1] /\ a[2] < b[2])

\* keys().sorted_by(|a, b| b.cmp(&a)): the periods, latest first
RECURSIVE sorted_periods(_)
sorted_periods(ps) ==
    IF ps = {} THEN <<>>
    ELSE LET top == CHOOSE p \in ps : \A q \in ps : ~period_lt(p, q)
         IN  <<top>> \o sorted_periods(ps \ {top})

\* Vec::dedup: consecutive repetitions removed
RECURSIVE dedup(_)
dedup(s) ==
    IF Len(s) <= 1 THEN s
    ELSE IF s[1] = s[2] THEN dedup(Tail(s))
    ELSE <<s[1]>> \o dedup(Tail(s))

\* print_balances: the accounts of the requested types, type by type
RECURSIVE balances_accounts_of(_, _)
balances_accounts_of(accs, classes) ==
    IF classes = <<>> THEN <<>>
    ELSE query_by_account_type(accs, Head(classes))
         \o balances_accounts_of(accs, Tail(classes))

balances_accounts(accs, classes) ==
    IF IsSome(classes) THEN balances_accounts_of(accs, classes[1]) ELSE accs

\* one data row of print_balances
balance_row(a, periods, by_period, price) ==
    [kind |-> "row", name |-> a.name, account_type |-> a.account_type,
     cells |-> [i \in DOMAIN periods |->
                   [value |-> IF a.name \in DOMAIN by_period[periods[i]]
                              THEN by_period[periods[i]][a.name] ELSE 0,
                    currency |-> UnwrapOr(price, a.currency)]]]

\* the rows printed under the heading of type t
RECURSIVE type_rows(_, _, _, _, _, _)
type_rows(t, faccs, names, periods, by_period, price) ==
    IF faccs = <<>> THEN <<>>
    ELSE (IF Head(faccs).name \in names /\ t = Head(faccs).account_type
          THEN <<balance_row(Head(faccs), periods, by_period, price)>>
          ELSE <<>>)
         \o type_rows(t, Tail(faccs), names, periods, by_period, price)

\* the loop over atypes: a heading, then the rows of that type
RECURSIVE balance_lines(_, _, _, _, _, _)
balance_lines(atypes, faccs, names, periods, by_period, price) ==
    IF atypes = <<>> THEN <<>>
    ELSE <<[kind |-> "type", account_type |-> Head(atypes)]>>
         \o type_rows(Head(atypes), faccs, names, periods, by_period, price)
         \o balance_lines(Tail(atypes), faccs, names, periods, by_period, price)

\* Ledger::print_balances
print_balances(from, to, classes, price, group) ==
    /\ pc = "loaded"
    /\ call' = [NoCall EXCEPT !.op = "print_balances", !.from = from, !.to = to,
                              !.classes = classes, !.price = price,
                              !.group = group]
    /\ LET valid == validate_transactions(accounts, transactions)
           ftxs == sort_by_date(date_filtered(transactions, from, to))
           faccs == balances_accounts(accounts, classes)
           by_period == group_transactions(ftxs, group)
           bals == period_balances(accounts, prices, by_period, price)
           result == group_transactions_by_period(accounts, prices, ftxs, price, group)
           periods == sorted_periods(DOMAIN result)
           account_names == UNION {DOMAIN result[p] : p \in DOMAIN result}
           atypes == dedup([i \in DOMAIN faccs |-> faccs[i].account_type])
       IN  IF valid # NoErr THEN Panics(valid)
           ELSE /\ pc' = "done"
                /\ err' = NoErr
                /\ filtered_transactions' = ftxs
                /\ filtered_accounts' = faccs
                /\ transactions_by_period' = by_period
                /\ aggregated' = bals
                /\ balances_by_period' = result
                /\ out' = <<[kind |-> "header", periods |-> periods]>>
                          \o balance_lines(atypes, faccs, account_names, periods,
                                           result, price)
    /\ UNCHANGED <<doc, accounts, transactions, prices>>

(***************************************************************************)
(* csvimporter.rs                                                          *)
(***************************************************************************)
\* NaiveDate::parse_from_str(s, fmt).ok(), for the strings and the two
\* formats the model uses
NaiveDate_parse_from_str(s, fmt) ==
    IF fmt = "%d/%m/%Y"
    THEN (IF s = "15/05/2023" THEN Some(20230515)
          ELSE IF s = "10/10/2023" THEN Some(20231010)
          ELSE None)
    ELSE IF fmt = "%Y-%m-%d" /\ s \in DOMAIN DateTable THEN Some(DateTable[s])
    ELSE None

\* NaiveDate::to_string: %Y-%m-%d
NaiveDate_to_string(d) == CHOOSE s \in DOMAIN DateTable : DateTable[s] = d

\* the first loop of import_transactions, for one row: the row as it is
\* pushed to new_transactions, or the error of its date
import_row(row, date_format) ==
    LET date == NaiveDate_parse_from_str(row.date_str, UnwrapOr(date_format, "%d/%m/%Y"))
        amount == IF row.amount < 0 THEN -row.amount ELSE row.amount
    IN  IF ~IsSome(date) THEN [error |-> "ParseError", row |-> row]
        ELSE [error |-> NoPanic,
              row |-> [row EXCEPT !.date_str = NaiveDate_to_string(date[1]),
                                  !.amount = amount,
                                  !.quantity = None,
                                  !.offset_amount = Some(amount * (-1))]]

\* to_string_pretty(&t) read back by the TOML parser: date_str is written
\* as a string under the key date, the floats as floats, a None is left out
csv_record(t) ==
    [date |-> VString(t.date_str), account |-> VString(t.account),
     payee |-> IF IsSome(t.payee) THEN VString(t.payee[1]) ELSE Absent,
     quantity |-> IF IsSome(t.quantity) THEN VFloat(t.quantity[1]) ELSE Absent,
     amount |-> VFloat(t.amount),
     offset_account |-> IF IsSome(t.offset_account) THEN VString(t.offset_account[1])
                        ELSE Absent,
     offset_amount |-> IF IsSome(t.offset_amount) THEN VFloat(t.offset_amount[1])
                       ELSE Absent,
     note |-> Absent]

\* import_transactions: every row is converted, then every converted row is
\* appended to the ledger file as a [[transaction]] table; the error of a row
\* ends the import before anything is written
import_transactions(csv, date_format) ==
    /\ pc = "start"
    /\ call.op = "none"
    /\ call' = [NoCall EXCEPT !.op = "import_transactions", !.csv = csv,
                              !.format = date_format]
    /\ LET rows == [i \in DOMAIN csv |-> import_row(csv[i], date_format)]
           failed == {i \in DOMAIN rows : rows[i].error # NoPanic}
           new_transactions == [i \in DOMAIN rows |-> rows[i].row]
       IN  IF failed # {}
           THEN /\ pc' = "failed"
                /\ err' = [kind |-> "ParseError",
                           at |-> CHOOSE i \in failed : \A j \in failed : i <= j]
                /\ UNCHANGED <<doc, out>>
           ELSE /\ pc' = "start"
                /\ err' = NoErr
                /\ out' = new_transactions
                /\ doc' = [doc EXCEPT !.transaction =
                              IF new_transactions = <<>> THEN @
                              ELSE Some(UnwrapOr(@, <<>>)
                                        \o [i \in DOMAIN new_transactions |->
                                               csv_record(new_transactions[i])])]
    /\ UNCHANGED <<accounts, transactions, prices, filtered_transactions,
                   filtered_accounts, transactions_by_period, aggregated,
                   balances_by_period>>

(***************************************************************************)
(* Loading: the documents Ledger::new is run on.  Every record is a        *)
(* well-formed one with at most one field absent or of another kind.       *)
(***************************************************************************)
MaxLoadRecords == 2

GoodAccount ==
    [name |-> VString("A"), open |-> VDatetime(20230930),
     currency |-> VString("USD"), type |-> VString("Expenses"),
     opening_balance |-> VFloat(3)]

GoodTransaction ==
    [date |-> VDatetime(20230515), account |-> VString("A"),
     payee |-> VString("P"), quantity |-> VFloat(2), amount |-> VFloat(5),
     offset_account |-> VString("B"), offset_amount |-> VFloat(-5),
     note |-> Absent]

GoodPrice ==
    [date |-> VDatetime(20231010), commodity |-> VString("BTC"),
     price |-> VFloat(4), currency |-> VString("USD")]

RawAccounts ==
    {GoodAccount}
    \cup {[GoodAccount EXCEPT !.name = v] : v \in {Absent, VString("\"A\"")}}
    \cup {[GoodAccount EXCEPT !.open = v] : v \in {Absent, VString("2023-05-15")}}
    \cup {[GoodAccount EXCEPT !.currency = v] : v \in {Absent}}
    \cup {[GoodAccount EXCEPT !.type = v] : v \in {Absent, VString("Foo"), VString("Assets")}}
    \cup {[GoodAccount EXCEPT !.opening_balance = v] :
             v \in {Absent, VInteger(3), VString("3")}}

RawTransactions ==
    {GoodTransaction}
    \cup {[GoodTransaction EXCEPT !.date = v] : v \in {Absent, VString("2023-05-15")}}
    \cup {[GoodTransaction EXCEPT !.account = v] : v \in {Absent}}
    \cup {[GoodTransaction EXCEPT !.payee = v] : v \in {Absent}}
    \cup {[GoodTransaction EXCEPT !.quantity = v] :
             v \in {Absent, VInteger(2), VString("2")}}
    \cup {[GoodTransaction EXCEPT !.amount = v] :
             v \in {Absent, VInteger(5), VString("5")}}
    \cup {[GoodTransaction EXCEPT !.offset_account = v] : v \in {Absent}}
    \cup {[GoodTransaction EXCEPT !.offset_amount = v] :
             v \in {Absent, VInteger(-5), VString("-5")}}

RawPrices ==
    {GoodPrice}
    \cup {[GoodPrice EXCEPT !.date = v] : v \in {Absent}}
    \cup {[GoodPrice EXCEPT !.commodity = v] : v \in {Absent}}
    \cup {[GoodPrice EXCEPT !.price = v] : v \in {Absent, VInteger(4), VString("4")}}
    \cup {[GoodPrice EXCEPT !.currency = v] : v \in {Absent}}

Document(a, t, p) == [account |-> a, transaction |-> t, price |-> p]

\* None or Some(list), for the lists of at most n records of S
OptionalLists(S, n) == {None} \cup {Some(l) : l \in SeqsUpTo(S, n)}

LoadDocuments ==
    {Document(a, None, None) : a \in OptionalLists(RawAccounts, MaxLoadRecords)}
    \cup {Document(None, t, None) : t \in OptionalLists(RawTransactions, MaxLoadRecords)}
    \cup {Document(None, None, p) : p \in OptionalLists(RawPrices, MaxLoadRecords)}
    \cup {Document(Some(<<GoodAccount>>), Some(<<t>>), Some(<<p>>)) :
             t \in RawTransactions, p \in RawPrices}

InitLoad == \E d \in LoadDocuments : InitWith(d)

NextLoad ==
    \/ New
    \/ print_accounts
    \/ print_journal(None, None, None, None, None)

SpecLoad == InitLoad /\ [][NextLoad]_vars

(***************************************************************************)
(* Well-formed records, as the TOML parser hands them over                 *)
(***************************************************************************)
RawAccountOf(name, currency, type, opening_balance) ==
    [name |-> VString(name), open |-> VDatetime(20230930),
     currency |-> VString(currency), type |-> VString(type),
     opening_balance |-> IF IsSome(opening_balance) THEN VFloat(opening_balance[1])
                         ELSE Absent]

RawTransactionOf(date, account, payee, quantity, amount, offset_account, offset_amount) ==
    [date |-> VDatetime(date), account |-> VString(account),
     payee |-> IF IsSome(payee) THEN VString(payee[1]) ELSE Absent,
     quantity |-> VFloat(quantity), amount |-> VFloat(amount),
     offset_account |-> VString(offset_account),
     offset_amount |-> VFloat(offset_amount), note |-> Absent]

RawPriceOf(date, commodity, price, currency) ==
    [date |-> VDatetime(date), commodity |-> VString(commodity),
     price |-> VFloat(price), currency |-> VString(currency)]

MaxAccounts == 3
MaxTransactions == 2
MaxPrices == 2
MaxBalanceAccounts == 2

(***************************************************************************)
(* Validation: ledgers whose accounts vary in name and currency (names     *)
(* may repeat) and whose transactions, all from A to B, vary in date       *)
(* (the earlier ones with a quantity of 2) and in whether the two amounts  *)
(* cancel.                                                                 *)
(***************************************************************************)
ValidateAccounts ==
    {RawAccountOf(n, c, "Assets", None) : n \in {"A", "B"}, c \in {"USD", "EUR"}}

ValidateTransactions ==
    {RawTransactionOf(d, "A", None, IF d = 20230515 THEN 2 ELSE 1, 5, "B", o) :
        d \in {20230515, 20231010}, o \in {-5, 0}}

ValidateDocuments ==
    {Document(Some(a), Some(t), None) :
        a \in SeqsUpTo(ValidateAccounts, MaxAccounts),
        t \in SeqsUpTo(ValidateTransactions, MaxTransactions)}

InitValidate == \E d \in ValidateDocuments : InitWith(d)

NextValidate ==
    \/ New
    \/ \E to \in {None, Some("2023-05-15")}, payee \in {None, Some("P")} :
           print_journal(None, to, None, None, payee)
    \/ \E to \in {None, Some("2023-05-15")}, classes \in {None, Some(<<"Income">>)} :
           print_balances(None, to, classes, None, None)

SpecValidate == InitValidate /\ [][NextValidate]_vars

(***************************************************************************)
(* Properties of validation                                                *)
(***************************************************************************)
Reports == {"print_journal", "print_balances"}

\* the last report stopped in validate_transactions
ValidationFailed ==
    /\ pc = "panicked"
    /\ err.kind \in {"Account {} does not exist", "Transaction does not balance"}

Declared(n) == \E i \in DOMAIN accounts : accounts[i].name = n

\* both legs of t name declared accounts, and the accounts they name have
\* one and the same currency
SameCurrencyLegs(t) ==
    /\ Declared(t.account)
    /\ Declared(t.offset_account)
    /\ \A i, j \in DOMAIN accounts :
           (accounts[i].name = t.account /\ accounts[j].name = t.offset_account)
               => accounts[i].currency = accounts[j].currency

\* C1: a transaction whose two legs name declared accounts of equal currency
\* is accepted by validate_transactions (the loop gets past it) if and only
\* if amount + offset_amount = 0; its quantity plays no part.
C1_AcceptedIffBalanced ==
    call.op \in Reports =>
        \A i \in DOMAIN transactions :
            SameCurrencyLegs(transactions[i]) =>
                /\ (~ValidationFailed \/ err.at > i)
                       => transactions[i].amount + transactions[i].offset_amount = 0
                /\ (ValidationFailed /\ err.at = i)
                       => transactions[i].amount + transactions[i].offset_amount # 0

\* C1 witness: with three declared accounts, a balanced transaction of
\* quantity 2 was accepted and the unbalanced one after it was rejected.
C1_Witness ==
    /\ call.op \in Reports
    /\ Len(accounts) = 3
    /\ Len(transactions) = 2
    /\ SameCurrencyLegs(transactions[1])
    /\ transactions[1].quantity = 2
    /\ transactions[1].amount + transactions[1].offset_amount = 0
    /\ transactions[2].amount + transactions[2].offset_amount # 0
    /\ ValidationFailed
    /\ err = [kind |-> "Transaction does not balance", at |-> 2]

\* C2 (as claimed): when validate_transactions completes without error, every
\* transaction has both its account and its offset_account declared.
C2_ValidatedLegsDeclared ==
    (call.op \in Reports /\ ~ValidationFailed) =>
        \A i \in DOMAIN transactions :
            /\ Declared(transactions[i].account)
            /\ Declared(transactions[i].offset_account)

\* the first declared account named n
FirstNamed(n) ==
    accounts[CHOOSE i \in DOMAIN accounts :
                 accounts[i].name = n /\ \A j \in 1..(i - 1) : accounts[j].name # n]

\* t violates the referential check or the balance check
ViolatesCheck(t) ==
    \/ ~Declared(t.account)
    \/ /\ t.amount + t.offset_amount # 0
       /\ Declared(t.account)
       /\ Declared(t.offset_account)
       /\ FirstNamed(t.account).currency = FirstNamed(t.offset_account).currency

\* C3: print_journal and print_balances validate the whole ledger before they
\* print: when any transaction violates a check, also one the filters of the
\* call exclude, the call panics and has printed nothing.
C3_NoOutputOnViolation ==
    (call.op \in Reports /\ \E i \in DOMAIN transactions : ViolatesCheck(transactions[i]))
        => (pc = "panicked" /\ out = <<>>)

\* C3 witness: a journal up to 2023-05-15 panicked without output on a ledger
\* whose only violating transaction is dated after that day.
C3_Witness ==
    /\ call.op = "print_journal"
    /\ call.to = Some("2023-05-15")
    /\ Len(transactions) = 2
    /\ transactions[1].date <= 20230515
    /\ ~ViolatesCheck(transactions[1])
    /\ transactions[2].date > 20230515
    /\ ViolatesCheck(transactions[2])
    /\ pc = "panicked"
    /\ out = <<>>

(***************************************************************************)
(* Properties of loading                                                   *)
(***************************************************************************)
RequiredAccountFields == {"name", "open", "currency", "type"}
RequiredTransactionFields == {"account", "date", "amount", "offset_account"}
RequiredPriceFields == {"date", "commodity", "price", "currency"}

\* some record of the list lacks one of the fields
LacksField(list, fields) ==
    /\ IsSome(list)
    /\ \E i \in DOMAIN list[1] : \E f \in fields : list[1][i][f].kind = "Absent"

\* C4 (as claimed): a document with a record that lacks a required field is
\* not loaded: Ledger::new fails for the missing field.
C4_MissingFieldFailsLoad ==
    (pc # "start"
     /\ \/ LacksField(doc.account, RequiredAccountFields)
        \/ LacksField(doc.transaction, RequiredTransactionFields)
        \/ LacksField(doc.price, RequiredPriceFields))
        => (pc = "panicked" /\ call.op = "none" /\ err.kind = "{} is a required field")

\* the monetary fields of the i-th and j-th record of a list are the same
\* number, once as an Integer and once as a Float
IntegerAndFloat(list, i, j, f) ==
    /\ list[i][f].kind = "Integer"
    /\ list[j][f].kind = "Float"
    /\ list[i][f].n = list[j][f].n

\* some record of the list gives the field f as neither Integer nor Float
NotANumber(list, f) ==
    /\ IsSome(list)
    /\ \E i \in DOMAIN list[1] : list[1][i][f].kind \notin {"Integer", "Float", "Absent"}

\* C5 (as claimed): amount, offset_amount, quantity and price load to the same
\* number from an Integer and from a Float, and any other representation
\* fails the load for its type.
C5_MonetaryCoercion ==
    /\ (pc \in {"loaded", "done"} /\ IsSome(doc.transaction)) =>
           \A i, j \in DOMAIN transactions :
               \A f \in {"amount", "offset_amount", "quantity"} :
                   IntegerAndFloat(doc.transaction[1], i, j, f)
                       => transactions[i][f] = transactions[j][f]
    /\ (pc \in {"loaded", "done"} /\ IsSome(doc.price)) =>
           \A i, j \in DOMAIN prices :
               IntegerAndFloat(doc.price[1], i, j, "price")
                   => prices[i].price = prices[j].price
    /\ (pc # "start"
        /\ \/ \E f \in {"amount", "offset_amount", "quantity"} : NotANumber(doc.transaction, f)
           \/ NotANumber(doc.price, "price"))
           => pc = "panicked"

(***************************************************************************)
(* Balances.  Two families of ledgers:                                     *)
(*   aggregation  accounts A and B in USD, with or without an opening      *)
(*                balance (names may repeat); transactions from A to B or  *)
(*                to the undeclared C, of quantity 1 or 2; no prices;      *)
(*   pricing      accounts A and B in USD or BTC with an opening balance   *)
(*                (names may repeat); one transaction from A to B, of 2    *)
(*                or of -3 (which empties A); prices of BTC in USD at two  *)
(*                dates and in EUR.                                        *)
(***************************************************************************)
AggregationAccounts ==
    {RawAccountOf(n, "USD", "Assets", ob) : n \in {"A", "B"}, ob \in {None, Some(3)}}

AggregationTransactions ==
    {RawTransactionOf(IF o = "B" THEN 20230220 ELSE 20230515, "A", None, q, 2, o, -2) :
        o \in {"B", "C"}, q \in {1, 2}}

PricingAccounts ==
    {RawAccountOf(n, c, "Assets", Some(3)) : n \in {"A", "B"}, c \in {"USD", "BTC"}}

PricingTransactions ==
    {<<RawTransactionOf(20230515, "A", None, 1, 2, "B", -2)>>,
     <<RawTransactionOf(20230515, "A", None, 1, -3, "B", 3)>>}

PricingPrices ==
    {RawPriceOf(20230220, "BTC", 2, "USD"), RawPriceOf(20230515, "BTC", 3, "USD"),
     RawPriceOf(20230515, "BTC", 5, "EUR")}

BalancesDocuments ==
    {Document(Some(a), Some(t), None) :
        a \in SeqsUpTo(AggregationAccounts, MaxBalanceAccounts),
        t \in SeqsUpTo(AggregationTransactions, MaxTransactions)}
    \cup {Document(Some(a), Some(t), Some(p)) :
        a \in SeqsUpTo(PricingAccounts, MaxBalanceAccounts),
        t \in PricingTransactions,
        p \in SeqsUpTo(PricingPrices, MaxPrices)}

InitBalances == \E d \in BalancesDocuments : InitWith(d)

NextBalances ==
    \/ New
    \/ \E price \in {None, Some("USD"), Some("EUR")}, group \in {None, Some("M")} :
           print_balances(None, None, None, price, group)

SpecBalances == InitBalances /\ [][NextBalances]_vars

(***************************************************************************)
(* Properties of the balance aggregator                                    *)
(***************************************************************************)
\* the sum of the opening balances of the declared accounts named n
OpeningSum(n) ==
    SumSeq([i \in DOMAIN accounts |->
               IF accounts[i].name = n
               THEN UnwrapOr(accounts[i].opening_balance, 0) ELSE 0])

\* the sum of amount * quantity over the transactions of txs on account n
PostingSum(txs, n) ==
    SumSeq([i \in DOMAIN txs |->
               IF txs[i].account = n THEN txs[i].amount * txs[i].quantity ELSE 0])

\* the sum of offset_amount over the transactions of txs with offset account n
OffsetSum(txs, n) ==
    SumSeq([i \in DOMAIN txs |->
               IF txs[i].offset_account = n THEN txs[i].offset_amount ELSE 0])

ExpectedBalance(txs, n) == OpeningSum(n) + PostingSum(txs, n) + OffsetSum(txs, n)

ExpectedNames(txs) ==
    {accounts[i].name : i \in DOMAIN accounts}
    \cup {txs[i].account : i \in DOMAIN txs}
    \cup {txs[i].offset_account : i \in DOMAIN txs}

\* C6: without a target currency, _get_balances returns for every account
\* name the opening balances of the accounts of that name, plus amount *
\* quantity of the transactions on it, plus offset_amount of the transactions
\* offset to it; it has an entry for every name, zero or not.
C6_AggregatedBalances ==
    (call.op = "print_balances" /\ pc = "done" /\ call.price = None) =>
        \A p \in DOMAIN aggregated :
            /\ DOMAIN aggregated[p] = ExpectedNames(transactions_by_period[p])
            /\ \A n \in DOMAIN aggregated[p] :
                   aggregated[p][n] = ExpectedBalance(transactions_by_period[p], n)

\* C6 witness: two accounts named A with opening balance 3 each and one
\* transaction of quantity 2 on A, offset to the undeclared C.
C6_Witness ==
    /\ call.op = "print_balances"
    /\ pc = "done"
    /\ call.price = None
    /\ Len(accounts) = 2
    /\ <<0, 0>> \in DOMAIN aggregated
    /\ DOMAIN aggregated[<<0, 0>>] = {"A", "C"}
    /\ aggregated[<<0, 0>>]["A"] = 10
    /\ aggregated[<<0, 0>>]["C"] = -2
    /\ "C" \in DOMAIN balances_by_period[<<0, 0>>]

\* the price records of the commodity quoted in c
Quotes(commodity, c) ==
    {k \in DOMAIN prices : prices[k].commodity = commodity /\ prices[k].currency = c}

\* C7 (as claimed): with a target currency c, the result for an account whose
\* currency has a price quoted in c is its un-priced balance times the rate
\* of the latest such price, and the result for any other account is its
\* un-priced balance.
C7_RepricedBalances ==
    (call.op = "print_balances" /\ pc = "done" /\ IsSome(call.price)) =>
        \A p \in DOMAIN aggregated : \A i \in DOMAIN accounts :
            LET a == accounts[i]
                quoted == Quotes(a.currency, call.price[1])
                unpriced == ExpectedBalance(transactions_by_period[p], a.name)
            IN  IF quoted # {}
                THEN \E k \in quoted :
                         /\ \A j \in quoted : prices[j].date <= prices[k].date
                         /\ aggregated[p][a.name] = unpriced * prices[k].price
                ELSE aggregated[p][a.name] = unpriced

(***************************************************************************)
(* The journal.  Two families of ledgers:                                  *)
(*   transactions  accounts A (Assets) and B (Expenses); transactions from *)
(*                 A to B that vary in date (one before 1970) and payee;   *)
(*   accounts      accounts that vary in name and type (names may repeat); *)
(*                 one transaction from A to B.                            *)
(***************************************************************************)
JournalTransactions ==
    {RawTransactionOf(d, "A", payee, 1, 2, "B", -2) :
        d \in {19650315, 20230515, 20231010}, payee \in {None, Some("P"), Some("Q")}}

JournalAccounts ==
    {RawAccountOf(n, "USD", t, None) : n \in {"A", "B"}, t \in {"Assets", "Expenses"}}
    \cup {RawAccountOf("B", "USD", "Foo", None)}

JournalDocuments ==
    {Document(Some(<<RawAccountOf("A", "USD", "Assets", None),
                     RawAccountOf("B", "USD", "Expenses", None)>>), Some(t), None) :
        t \in SeqsUpTo(JournalTransactions, MaxTransactions)}
    \cup {Document(Some(a), Some(<<RawTransactionOf(20231010, "A", Some("P"), 1, 2, "B", -2)>>),
                   None) :
        a \in SeqsUpTo(JournalAccounts, MaxAccounts)}

InitJournal == \E d \in JournalDocuments : InitWith(d)

NextJournal ==
    \/ New
    \/ \E from \in {None, Some("2023-05-15")}, to \in {None, Some("2023-05-15")},
          account_type \in {None, Some("Expenses"), Some("Bar")},
          name \in {None, Some("B")}, payee \in {None, Some("P")} :
           print_journal(from, to, account_type, name, payee)

SpecJournal == InitJournal /\ [][NextJournal]_vars

(***************************************************************************)
(* Properties of the journal's filters                                     *)
(***************************************************************************)
\* t is dated within the range the arguments from and to of the call name,
\* an absent end being open
InCallRange(t) ==
    /\ IsSome(call.from) => t.date >= DateTable[call.from[1]]
    /\ IsSome(call.to) => t.date <= DateTable[call.to[1]]

\* C8 (as claimed): given a date range and a payee, print_journal considers
\* exactly the transactions inside the range that have the payee.
C8_DateAndPayee ==
    (call.op = "print_journal" /\ pc = "done" /\ IsSome(call.payee)
     /\ (IsSome(call.from) \/ IsSome(call.to))) =>
        LET Wanted(t) == InCallRange(t) /\ t.payee = call.payee
        IN  filtered_transactions = SelectSeq(transactions, Wanted)

\* C9 (as claimed): given an account type and an account name, the accounts
\* that survive are exactly the declared accounts of that type and that name.
C9_TypeAndName ==
    (call.op = "print_journal" /\ pc = "done" /\ IsSome(call.account_type)
     /\ IsSome(call.name)) =>
        LET Wanted(a) ==
                /\ a.account_type = AccountType_from_str(call.account_type[1])
                /\ a.name = call.name[1]
        IN  filtered_accounts = SelectSeq(accounts, Wanted)

\* C10 (as claimed): the date filter selects exactly the transactions t with
\* from <= t.date <= to, an absent from or to leaving that end open.
C10_DateRange ==
    (call.op = "print_journal" /\ pc = "done" /\ call.payee = None) =>
        filtered_transactions = SelectSeq(transactions, InCallRange)

(***************************************************************************)
(* The balance table.  Ledgers whose accounts vary in name, type and       *)
(* order (names may repeat), with one transaction from A to B; the         *)
(* requested types vary, a type may be requested twice.                    *)
(***************************************************************************)
TableAccounts ==
    {RawAccountOf(n, "USD", t, None) : n \in {"A", "B"}, t \in {"Assets", "Expenses"}}
    \cup {RawAccountOf("C", "USD", "Assets", None)}

TableDocuments ==
    {Document(Some(a), Some(<<RawTransactionOf(20230515, "A", None, 1, 2, "B", -2)>>), None) :
        a \in SeqsUpTo(TableAccounts, MaxAccounts)}

InitTable == \E d \in TableDocuments : InitWith(d)

NextTable ==
    \/ New
    \/ \E classes \in {None, Some(<<"Assets">>), Some(<<"Assets", "Expenses">>),
                       Some(<<"Assets", "Assets">>)},
          group \in {None, Some("M")} :
           print_balances(None, None, classes, None, group)

SpecTable == InitTable /\ [][NextTable]_vars

(***************************************************************************)
(* Properties of the balance table                                         *)
(***************************************************************************)
\* the declared accounts the type filter of the call selects
SelectedByType ==
    {i \in DOMAIN accounts :
        \/ call.classes = None
        \/ \E k \in DOMAIN call.classes[1] :
               accounts[i].account_type = AccountType_from_str(call.classes[1][k])}

\* the account has an entry in at least one period bucket
HasEntry(a) == \E p \in DOMAIN balances_by_period : a.name \in DOMAIN balances_by_period[p]

\* the positions of out that hold a line of the given kind
LinesOfKind(k) == {i \in DOMAIN out : out[i].kind = k}

\* the heading a row is printed under: the last heading before it
HeadingOf(r) ==
    LET before == {h \in LinesOfKind("type") : h < r}
    IN  CHOOSE h \in before : \A g \in before : g <= h

\* C11 (as claimed): print_balances prints each account type heading at most
\* once, each row under the heading of its account's type, and as many rows
\* for a name and type as there are selected accounts of that name and type
\* with an entry in some period bucket (each such account in exactly one row).
C11_OneRowPerAccount ==
    (call.op = "print_balances" /\ pc = "done") =>
        /\ \A g, h \in LinesOfKind("type") :
               out[g].account_type = out[h].account_type => g = h
        /\ \A r \in LinesOfKind("row") :
               out[HeadingOf(r)].account_type = out[r].account_type
        /\ \A i \in SelectedByType :
               HasEntry(accounts[i]) =>
                   Cardinality({r \in LinesOfKind("row") :
                                   /\ out[r].name = accounts[i].name
                                   /\ out[r].account_type = accounts[i].account_type})
                   = Cardinality({j \in SelectedByType :
                                   /\ accounts[j].name = accounts[i].name
                                   /\ accounts[j].account_type = accounts[i].account_type})

\* the transaction passes every transaction filter of the call
PassesTransactionFilters(t) ==
    /\ InCallRange(t)
    /\ IsSome(call.payee) => t.payee = call.payee

\* the account survives every account filter of the call
SurvivesAccountFilters(a) ==
    /\ IsSome(call.account_type) =>
           a.account_type = AccountType_from_str(call.account_type[1])
    /\ IsSome(call.name) => a.name = call.name[1]

\* one of the two legs of t names an account that survives the account filters
LegSurvives(t) ==
    \E i \in DOMAIN accounts :
        /\ SurvivesAccountFilters(accounts[i])
        /\ accounts[i].name = t.account \/ accounts[i].name = t.offset_account

\* C12 (as claimed): print_journal prints, in non-decreasing date order, one
\* posting of two lines (the primary leg, then the offset leg) for each
\* transaction that passes the transaction filters and has a leg naming an
\* account that survives the account filters, and nothing else.
C12_JournalPostings ==
    (call.op = "print_journal" /\ pc = "done") =>
        LET Wanted(t) == PassesTransactionFilters(t) /\ LegSurvives(t)
            wanted == SelectSeq(transactions, Wanted)
        IN  /\ Len(out) = 2 * Len(wanted)
            /\ \A k \in DOMAIN wanted :
                   /\ out[2 * k - 1].leg = "posting"
                   /\ out[2 * k - 1].date = wanted[k].date
                   /\ out[2 * k - 1].account = wanted[k].account
                   /\ out[2 * k - 1].amount = wanted[k].amount
                   /\ out[2 * k].leg = "offset"
                   /\ out[2 * k].date = wanted[k].date
                   /\ out[2 * k].account = wanted[k].offset_account
                   /\ out[2 * k].amount = wanted[k].offset_amount
            /\ \A i, j \in DOMAIN out : i <= j => out[i].date <= out[j].date

(***************************************************************************)
(* Properties of the account types                                         *)
(***************************************************************************)
\* the type strings that are none of the nine names, as far as they occur
UnrecognizedTypes == {"Foo", "Bar", "Unknown", "assets", ""}

PeriodTransactions ==
    {RawTransactionOf(d, "A", None, 1, 2, "B", -2) : d \in {20230220, 20230515, 20240105}}
    \cup {RawTransactionOf(d, "B", None, 1, 2, "A", -2) : d \in {20230220, 20230515}}
    \cup {RawTransactionOf(20230515, "A", None, 1, 2, "C", -2)}

PeriodAccounts ==
    LET a == RawAccountOf("A", "USD", "Assets", None)
        b == RawAccountOf("B", "USD", "Assets", None)
        c == RawAccountOf("C", "USD", "Assets", Some(3))
    IN  {<<a, b, c>>, <<a, b, c, c>>}

PeriodDocuments ==
    {Document(Some(a), Some(t), None) :
        a \in PeriodAccounts, t \in SeqsUpTo(PeriodTransactions, MaxTransactions)}

InitPeriods == \E d \in PeriodDocuments : InitWith(d)

NextPeriods ==
    \/ New
    \/ \E to \in {None, Some("2023-02-20"), Some("1965-03-15")},
          group \in {None, Some("M"), Some("Q"), Some("Y"), Some("W")} :
           print_balances(None, to, None, None, group)

SpecPeriods == InitPeriods /\ [][NextPeriods]_vars

(***************************************************************************)
(* Properties of the period grouper                                        *)
(***************************************************************************)
\* the bucket key the unit of the call gives a transaction
KeyOf(t) ==
    LET y == t.date \div 10000
        m == (t.date \div 100) % 100
    IN  IF call.group = Some("M") THEN <<y, m>>
        ELSE IF call.group = Some("Q") THEN <<y, ((m - 1) \div 3) + 1>>
        ELSE IF call.group = Some("Y") THEN <<y, y>>
        ELSE <<0, 0>>

\* the transactions handed to the grouper whose key is p
WithKey(p) ==
    LET Keep(t) == KeyOf(t) = p
    IN  SelectSeq(filtered_transactions, Keep)

\* C14: the grouper puts each transaction in exactly one bucket, the one of
\* its key: (year, month) for M, (year, quarter) for Q, (year, year) for Y and
\* (0, 0) for no unit or an unrecognized one; the balances of a bucket are
\* computed from exactly the transactions with its key.
C14_PeriodBuckets ==
    (call.op = "print_balances" /\ pc = "done") =>
        /\ DOMAIN transactions_by_period = {KeyOf(t) : t \in Range(filtered_transactions)}
        /\ \A p \in DOMAIN transactions_by_period :
               transactions_by_period[p] = WithKey(p)
        /\ DOMAIN aggregated = DOMAIN transactions_by_period
        /\ DOMAIN balances_by_period = DOMAIN transactions_by_period
        /\ \A p \in DOMAIN aggregated : \A n \in DOMAIN aggregated[p] :
               aggregated[p][n] = ExpectedBalance(WithKey(p), n)
        /\ \A p \in DOMAIN transactions_by_period :
               /\ call.group = Some("M") => p[2] \in 1..12
               /\ call.group = Some("Q") => p[2] \in 1..4

\* grouped by quarter, a transaction of February 2023 and one of May 2023
\* are in the buckets (2023, 1) and (2023, 2)
C14_Witness ==
    /\ call.op = "print_balances" /\ pc = "done" /\ call.group = Some("Q")
    /\ DOMAIN transactions_by_period = {<<2023, 1>>, <<2023, 2>>}
    /\ Len(transactions_by_period[<<2023, 2>>]) = 1
    /\ transactions_by_period[<<2023, 2>>][1].date = 20230515

(***************************************************************************)
(* Sequences of reports.  print_journal and print_balances borrow the      *)
(* ledger (&mut self) and give it back, so a caller may run one report     *)
(* after another on the same ledger.  Ledgers with accounts A and B, a     *)
(* price, and transactions declared in any order of their dates.           *)
(***************************************************************************)
\* the report returns and the ledger is the caller's again
Return ==
    /\ pc = "done"
    /\ call.op \in {"print_journal", "print_balances"}
    /\ pc' = "loaded"
    /\ UNCHANGED <<doc, accounts, transactions, prices, err, call, out,
                   filtered_transactions, filtered_accounts,
                   transactions_by_period, aggregated, balances_by_period>>

SequenceTransactions ==
    {RawTransactionOf(d, "A", None, 1, 2, "B", -2) : d \in {20230220, 20230515, 20231010}}
    \cup {RawTransactionOf(20230515, "B", Some("P"), 1, 2, "A", -2)}

SequenceDocuments ==
    {Document(Some(<<RawAccountOf("A", "USD", "Assets", Some(3)),
                     RawAccountOf("B", "USD", "Expenses", None)>>), Some(t),
              Some(<<RawPriceOf(20230220, "USD", 2, "EUR")>>)) :
        t \in SeqsUpTo(SequenceTransactions, MaxTransactions)}

InitSequence == \E d \in SequenceDocuments : InitWith(d)

NextSequence ==
    \/ New
    \/ \E payee \in {None, Some("P")} : print_journal(None, None, None, None, payee)
    \/ \E price \in {None, Some("EUR")}, group \in {None, Some("M")} :
           print_balances(None, None, None, price, group)
    \/ Return

SpecSequence == InitSequence /\ [][NextSequence]_vars

(***************************************************************************)
(* Properties of sequences of reports                                      *)
(***************************************************************************)
\* t is s with its elements in another order
IsPermutation(s, t) ==
    /\ Len(s) = Len(t)
    /\ \E f \in [DOMAIN s -> DOMAIN s] :
           /\ \A i, j \in DOMAIN s : f[i] = f[j] => i = j
           /\ \A i \in DOMAIN s : t[i] = s[f[i]]

\* C15: a call of print_balances or print_journal on a loaded ledger leaves
\* the accounts and the prices as they are; print_balances leaves the
\* transactions as they are; print_journal leaves the same transactions, in
\* ascending order of their dates.
C15_ReportsOnlyReorder ==
    [][(pc = "loaded" /\ pc' # "loaded") =>
           /\ accounts' = accounts
           /\ prices' = prices
           /\ call'.op = "print_balances" => transactions' = transactions
           /\ call'.op = "print_journal" =>
                  /\ IsPermutation(transactions, transactions')
                  /\ \A i, j \in DOMAIN transactions' :
                         i <= j => transactions'[i].date <= transactions'[j].date]_vars

\* a print_balances that ran after a print_journal: the transactions, declared
\* latest first, are in ascending order when print_balances is done
C15_Witness ==
    /\ call.op = "print_balances" /\ pc = "done"
    /\ Len(transactions) = 2
    /\ doc.transaction[1][1].date.n > doc.transaction[1][2].date.n
    /\ transactions[1].date < transactions[2].date
    /\ Len(accounts) = 2 /\ Len(prices) = 1

(***************************************************************************)
(* Properties of validation: the legs that are not compared                *)
(***************************************************************************)
\* one of the legs of t names no declared account, or the first declared
\* accounts the two legs name differ in currency
LegsNotComparable(t) ==
    \/ ~Declared(t.account)
    \/ ~Declared(t.offset_account)
    \/ FirstNamed(t.account).currency # FirstNamed(t.offset_account).currency

\* C16: a transaction whose amounts do not cancel is never the one reported
\* as unbalanced when one of its legs names an undeclared account or when the
\* first declared accounts of its two legs' names differ in currency.
C16_UnbalancedNotReported ==
    call.op \in Reports =>
        \A i \in DOMAIN transactions :
            (/\ transactions[i].amount + transactions[i].offset_amount # 0
             /\ LegsNotComparable(transactions[i]))
                => ~(/\ pc = "panicked"
                     /\ err = [kind |-> "Transaction does not balance", at |-> i])

\* a report ran to its end on an unbalanced transaction from A to B where a
\* later declared A has the currency of B, the first declared A has not
C16_Witness ==
    /\ call.op \in Reports /\ pc = "done"
    /\ Len(transactions) = 1
    /\ transactions[1].amount + transactions[1].offset_amount # 0
    /\ Len(accounts) = 3
    /\ accounts[1].name = "A" /\ accounts[2].name = "A" /\ accounts[3].name = "B"
    /\ accounts[1].currency # accounts[3].currency
    /\ accounts[2].currency = accounts[3].currency

(***************************************************************************)
(* Properties of the period grouper: opening balances                      *)
(***************************************************************************)
\* some transaction of txs has a leg on the account name n
Touches(txs, n) ==
    \E k \in DOMAIN txs : txs[k].account = n \/ txs[k].offset_account = n

\* the declared accounts with a non-zero opening balance that no transaction
\* of the bucket p touches
SeededOnly(p) ==
    {i \in DOMAIN accounts :
        /\ IsSome(accounts[i].opening_balance)
        /\ accounts[i].opening_balance[1] # 0
        /\ ~Touches(transactions_by_period[p], accounts[i].name)}

C18_NoZeroEntries ==
    (call.op = "print_balances" /\ pc = "done") =>
        /\ DOMAIN balances_by_period = DOMAIN aggregated
        /\ \A p \in DOMAIN balances_by_period :
               /\ \A n \in DOMAIN balances_by_period[p] : balances_by_period[p][n] # 0
               /\ \A n \in DOMAIN aggregated[p] :
                      aggregated[p][n] # 0 =>
                          /\ n \in DOMAIN balances_by_period[p]
                          /\ balances_by_period[p][n] = aggregated[p][n]
               /\ DOMAIN balances_by_period[p] \subseteq DOMAIN aggregated[p]

\* with a target currency, a bucket lost a name whose balance is zero and
\* kept a re-priced one
C18_Witness ==
    /\ call.op = "print_balances" /\ pc = "done" /\ call.price = Some("USD")
    /\ \E p \in DOMAIN aggregated : \E n, m \in DOMAIN aggregated[p] :
           /\ aggregated[p][n] = 0
           /\ n \notin DOMAIN balances_by_period[p]
           /\ m \in DOMAIN balances_by_period[p]
           /\ balances_by_period[p][m] # ExpectedBalance(transactions_by_period[p], m)

(***************************************************************************)
(* Properties of re-pricing: names declared more than once                 *)
(***************************************************************************)
\* every declared account named n has the currency c, and there is one
AllInCurrency(n, c) ==
    /\ \E i \in DOMAIN accounts : accounts[i].name = n
    /\ \A i \in DOMAIN accounts : accounts[i].name = n => accounts[i].currency = c

\* C19 (as claimed): with a target currency, the entry of a name whose
\* declared accounts all have one currency, a currency quoted in the target
\* currency, is its un-priced balance multiplied by the latest rate once,
\* however many accounts declare the name.
C19_RepricedOnce ==
    (call.op = "print_balances" /\ pc = "done" /\ IsSome(call.price)) =>
        \A p \in DOMAIN aggregated : \A i \in DOMAIN accounts :
            LET a == accounts[i]
                quoted == Quotes(a.currency, call.price[1])
            IN  (AllInCurrency(a.name, a.currency) /\ quoted # {}) =>
                    \E k \in quoted :
                        /\ \A j \in quoted : prices[j].date <= prices[k].date
                        /\ aggregated[p][a.name]
                               = ExpectedBalance(transactions_by_period[p], a.name)
                                 * prices[k].price

(***************************************************************************)
(* Conservation                                                            *)
(***************************************************************************)
\* the sum of f over the set S
RECURSIVE SumOver(_, _)
SumOver(f, S) ==
    IF S = {} THEN 0
    ELSE LET x == CHOOSE x \in S : TRUE
         IN  f[x] + SumOver(f, S \ {x})

\* the declared accounts have one currency and every leg of every
\* transaction names a declared account
ClosedSingleCurrency ==
    /\ \A i, j \in DOMAIN accounts : accounts[i].currency = accounts[j].currency
    /\ \A k \in DOMAIN transactions :
           Declared(transactions[k].account) /\ Declared(transactions[k].offset_account)

\* C20 (as claimed): on a validated ledger in one currency whose transactions
\* name declared accounts only, the balances of all transactions, without a
\* target currency, add up to the sum of the opening balances.
C20_Conservation ==
    (/\ call.op = "print_balances" /\ pc = "done"
     /\ call.from = None /\ call.to = None /\ call.price = None /\ call.group = None
     /\ ClosedSingleCurrency
     /\ transactions # <<>>) =>
        SumOver(aggregated[<<0, 0>>], DOMAIN aggregated[<<0, 0>>])
            = SumSeq([i \in DOMAIN accounts |-> UnwrapOr(accounts[i].opening_balance, 0)])

(***************************************************************************)
(* Properties of reports on an empty ledger                                *)
(***************************************************************************)
\* C21 (as claimed): on a ledger whose document has none of the three record
\* arrays, print_accounts and print_journal complete normally and print no
\* row.
C21_EmptyLedgerReports ==
    (/\ doc = Document(None, None, None)
     /\ call.op \in {"print_accounts", "print_journal"}) =>
        (pc = "done" /\ out = <<>>)

(***************************************************************************)
(* Properties of the period grouper: an empty input                        *)
(***************************************************************************)
\* C22: the bucket keys of the grouper's result are exactly the period keys
\* of the transactions it is given; a bucket holds at least one transaction;
\* given no transaction it returns no bucket, whatever the opening balances,
\* and print_balances prints no account row.
C22_BucketsOfTransactions ==
    (call.op = "print_balances" /\ pc = "done") =>
        /\ DOMAIN balances_by_period = {KeyOf(t) : t \in Range(filtered_transactions)}
        /\ \A p \in DOMAIN balances_by_period : WithKey(p) # <<>>
        /\ filtered_transactions = <<>> =>
               /\ DOMAIN balances_by_period = {}
               /\ LinesOfKind("row") = {}

\* a date range that matches none of the ledger's transactions: no bucket and
\* no row, although C is declared with an opening balance of 3
C22_Witness ==
    /\ call.op = "print_balances" /\ pc = "done"
    /\ call.to = Some("1965-03-15")
    /\ transactions # <<>>
    /\ filtered_transactions = <<>>
    /\ \E i \in DOMAIN accounts : accounts[i].opening_balance = Some(3)
    /\ DOMAIN balances_by_period = {}
    /\ LinesOfKind("type") # {}
    /\ LinesOfKind("row") = {}

(***************************************************************************)
(* Import.  A ledger file with accounts A and B and at most one            *)
(* transaction; a CSV file of at most MaxCsvRows rows whose dates are      *)
(* written day/month/year or year-month-day, imported with the default     *)
(* date format or with %Y-%m-%d; the ledger is loaded after the import.    *)
(***************************************************************************)
MaxCsvRows == 2

CsvRows ==
    {[date_str |-> d, account |-> "A", payee |-> None, quantity |-> q,
      amount |-> a, offset_account |-> o, offset_amount |-> None] :
        d \in {"15/05/2023", "2023-10-10"}, q \in {None, Some(2)},
        a \in {20, -20}, o \in {None, Some("B")}}

ImportDocuments ==
    {Document(Some(<<RawAccountOf("A", "USD", "Expenses", None),
                     RawAccountOf("B", "USD", "Assets", None)>>), t, None) :
        t \in {None, Some(<<RawTransactionOf(20230220, "A", None, 1, 5, "B", -5)>>)}}

InitImport == \E d \in ImportDocuments : InitWith(d)

NextImport ==
    \/ \E csv \in SeqsUpTo(CsvRows, MaxCsvRows),
          date_format \in {None, Some("%Y-%m-%d")} :
           import_transactions(csv, date_format)
    \/ New

SpecImport == InitImport /\ [][NextImport]_vars

(***************************************************************************)
(* Properties of the import                                                *)
(***************************************************************************)
\* the absolute value
Abs(x) == IF x < 0 THEN -x ELSE x

\* C23 (as claimed): the load that follows an import accepts every record the
\* import appended, and the transaction of each has the date and the account
\* of its CSV row, the absolute value of the row's amount as amount, and
\* -amount as offset_amount.
C23_ImportRoundTrip ==
    (call.op = "import_transactions" /\ pc \notin {"start", "failed"}) =>
        /\ pc = "loaded"
        /\ Len(transactions) >= Len(call.csv)
        /\ \A i \in DOMAIN call.csv :
               LET row == call.csv[i]
                   t == transactions[Len(transactions) - Len(call.csv) + i]
               IN  /\ Some(t.date) = NaiveDate_parse_from_str(
                                         row.date_str, UnwrapOr(call.format, "%d/%m/%Y"))
                   /\ t.account = row.account
                   /\ t.amount = Abs(row.amount)
                   /\ t.offset_amount = -t.amount

(***************************************************************************)
(* The whole program: any of the documents above, any of the calls above   *)
(***************************************************************************)
Init ==
    \/ InitLoad \/ InitValidate \/ InitBalances \/ InitJournal
    \/ InitTable \/ InitPeriods \/ InitSequence \/ InitImport

Next ==
    \/ NextLoad \/ NextValidate \/ NextBalances \/ NextJournal
    \/ NextTable \/ NextPeriods \/ NextSequence \/ NextImport

Spec == Init /\ [][Next]_vars

====
